---- MODULE Spec2Model ----
(***************************************************************************)
(* Rigid-body poses of optima_3d_spatial (optima_3d_pose.rs): the two      *)
(* O3DPose representations (ImplicitDualQuaternion, nalgebra Isometry3),   *)
(* the SE(3) logarithm / exponential kernel and the 6-value codec.         *)
(*                                                                         *)
(* Scalars.  The code is generic over T: AD (f64 and its autodiff          *)
(* liftings).  The model computes with exact real numbers of the ring      *)
(* Q(sqrt 2)[pi, 1/pi]: a scalar is a function from exponents of pi to     *)
(* nonzero coefficients <<a, b, d>> standing for (a + b*sqrt 2)/d, d > 0,  *)
(* gcd(a, b, d) = 1.  The representation is canonical, so equality of      *)
(* scalars is equality of values.  Rotations are drawn from the binary     *)
(* dihedral group of order 16 (the quaternions cos(m*pi/4) + sin(m*pi/4)k  *)
(* and cos(m*pi/4)i + sin(m*pi/4)j), on which sqrt, sin, cos, acos and     *)
(* atan2 are exact in this ring.                                           *)
(***************************************************************************)
EXTENDS Integers, Sequences, FiniteSets, TLC

VARIABLES kind, scalar, pose, derivative, last, steps,
          engine, mutex, frames, call,
          robot_states, robot_state_update_requests, transforms

\* the pose under test and the record of the operation applied last
poses == <<kind, scalar, pose, derivative, last, steps>>

\* the egui engine behind its mutex, the container show calls that are running
\* their contents, and the call made last
gui == <<engine, mutex, frames, call>>

\* the RobotStateEngine resource and the link transforms the updater writes
robots == <<robot_states, robot_state_update_requests, transforms>>

vars == <<poses, gui, robots>>

----------------------------------------------------------------------------
(* Integers *)

Abs(n) == IF n < 0 THEN -n ELSE n

RECURSIVE GCD(_, _)
GCD(a, b) == IF b = 0 THEN a ELSE GCD(b, a % b)

\* the largest r in lo..hi with r*r <= n, by bisection
RECURSIVE RootIn(_, _, _)
RootStep(n, lo, hi, mid) ==
    IF mid * mid <= n THEN RootIn(n, mid, hi) ELSE RootIn(n, lo, mid - 1)

RootIn(n, lo, hi) == IF lo = hi THEN lo ELSE RootStep(n, lo, hi, (lo + hi + 1) \div 2)

\* the integer square root (46340 is the largest root of a 32-bit square)
ISqrt(n) == RootIn(n, 0, IF n < 46340 THEN n ELSE 46340)

SquareOf(r) == r * r

IsSquare(n) == n >= 0 /\ SquareOf(ISqrt(n)) = n

----------------------------------------------------------------------------
(* Q(sqrt 2): <<a, b, d>> is (a + b*sqrt 2)/d *)

R2Reduce(a, b, d, g) == <<a \div g, b \div g, d \div g>>

\* lowest terms, with a positive denominator
R2(a, b, d) ==
    IF d < 0 THEN R2Reduce(-a, -b, -d, GCD(GCD(Abs(a), Abs(b)), Abs(d)))
    ELSE R2Reduce(a, b, d, GCD(GCD(Abs(a), Abs(b)), Abs(d)))

R2Zero == <<0, 0, 1>>
R2One == <<1, 0, 1>>

R2Add(x, y) == R2(x[1] * y[3] + y[1] * x[3], x[2] * y[3] + y[2] * x[3], x[3] * y[3])

R2Neg(x) == <<-x[1], -x[2], x[3]>>

R2Mul(x, y) ==
    R2(x[1] * y[1] + 2 * x[2] * y[2], x[1] * y[2] + x[2] * y[1], x[3] * y[3])

\* 1/((a + b*sqrt 2)/d) = d*(a - b*sqrt 2)/(a^2 - 2*b^2)
R2Inv(x) == R2(x[3] * x[1], -(x[3] * x[2]), x[1] * x[1] - 2 * x[2] * x[2])

IntSign(n) == IF n > 0 THEN 1 ELSE IF n < 0 THEN -1 ELSE 0

\* the sign of a + b*sqrt 2
SignOfSum(a, b) ==
    IF a >= 0 /\ b >= 0 THEN IntSign(a + b)
    ELSE IF a <= 0 /\ b <= 0 THEN -1
    ELSE IF a > 0 THEN IntSign(a * a - 2 * b * b)
    ELSE IntSign(2 * b * b - a * a)

R2Sign(x) == SignOfSum(x[1], x[2])

\* the square root of a rational or of twice a rational square; <<>> if none
R2SqrtKnown(x) ==
    /\ x[2] = 0
    /\ \/ IsSquare(x[1]) /\ IsSquare(x[3])
       \/ IsSquare(2 * x[1]) /\ IsSquare(x[3])
       \/ IsSquare(x[1]) /\ IsSquare(2 * x[3])

R2Sqrt(x) ==
    IF IsSquare(x[1]) /\ IsSquare(x[3]) THEN R2(ISqrt(x[1]), 0, ISqrt(x[3]))
    ELSE IF IsSquare(2 * x[1]) /\ IsSquare(x[3])
         THEN R2(0, ISqrt(2 * x[1]), 2 * ISqrt(x[3]))
    ELSE R2(0, ISqrt(x[1]), ISqrt(2 * x[3]))

----------------------------------------------------------------------------
(* Scalars: finite sums of c_e * pi^e *)

Zero == <<>>

Coef(x, e) == IF e \in DOMAIN x THEN x[e] ELSE R2Zero

Mono(c, e) == IF c = R2Zero THEN Zero ELSE [n \in {e} |-> c]

Rat(n, d) == Mono(R2(n, 0, d), 0)

One == Rat(1, 1)

Sqrt2 == Mono(R2(0, 1, 1), 0)

\* n*pi/d
PiTimes(n, d) == Mono(R2(n, 0, d), 1)

Strip(f) == [e \in {n \in DOMAIN f : f[n] # R2Zero} |-> f[e]]

Add(x, y) == Strip([e \in DOMAIN x \cup DOMAIN y |-> R2Add(Coef(x, e), Coef(y, e))])

Neg(x) == [e \in DOMAIN x |-> R2Neg(x[e])]

Sub(x, y) == Add(x, Neg(y))

RECURSIVE ConvSum(_, _, _, _)
ConvSum(x, y, e, S) ==
    IF S = {} THEN R2Zero
    ELSE LET n == CHOOSE m \in S : TRUE
         IN  R2Add(R2Mul(x[n], y[e - n]), ConvSum(x, y, e, S \ {n}))

Mul(x, y) ==
    Strip([e \in {m + n : m \in DOMAIN x, n \in DOMAIN y} |->
              ConvSum(x, y, e, {m \in DOMAIN x : e - m \in DOMAIN y})])

\* a scalar with one power of pi: the only divisors the code meets
IsMono(x) == Cardinality(DOMAIN x) = 1

MonoExp(x) == CHOOSE e \in DOMAIN x : TRUE

Inv(x) == LET e == MonoExp(x) IN Mono(R2Inv(x[e]), -e)

\* what a division by zero gives: a value that is not a finite number, kept as
\* a power of pi no finite scalar of the model has
NonFinite == [n \in {1000 * 1000} |-> R2One]

Div(x, y) == IF y = Zero THEN NonFinite ELSE Mul(x, Inv(y))

Powi(x, n) == IF n = 2 THEN Mul(x, x) ELSE Mul(Mul(x, x), Mul(x, x))

\* the sign of a scalar with at most one power of pi (pi > 0); the code compares
\* no other scalars on the model's domain
Sign(x) ==
    CASE x = Zero -> 0
      [] IsMono(x) -> R2Sign(x[MonoExp(x)])

Lt(x, y) == Sign(Sub(x, y)) < 0
Ge(x, y) == Sign(Sub(x, y)) >= 0
Gt(x, y) == Sign(Sub(x, y)) > 0

\* x >= 1 for a positive x = c or x = c*pi, decided with 333/106 < pi < 355/113
AtLeastOne(x) ==
    LET e == MonoExp(x)
    IN  CASE e = 0 -> Ge(x, One)
          [] e = 1 /\ Ge(Mono(R2Mul(x[e], R2(333, 0, 106)), 0), One) -> TRUE
          [] e = 1 /\ Lt(Mono(R2Mul(x[e], R2(355, 0, 113)), 0), One) -> FALSE

\* x < 10^(-k) for a positive x
RECURSIVE BelowPow10(_, _)
BelowPow10(x, k) ==
    IF AtLeastOne(x) THEN FALSE
    ELSE IF k = 0 THEN TRUE
    ELSE BelowPow10(Mul(Rat(10, 1), x), k - 1)

\* x < 10^(-k): the comparison of a scalar with a literal threshold T::constant(1e-k)
LtPow10(x, k) == Sign(x) <= 0 \/ BelowPow10(x, k)

\* the positive square root of x: exact where the ring holds it, and otherwise
\* kept as the symbol sqrt(x) (a function on the one key SurdKey)
SurdKey == -(1000 * 1000)

Surd(x) == [n \in {SurdKey} |-> x]

IsSurd(x) == SurdKey \in DOMAIN x

HasRoot(x) ==
    \/ x = Zero
    \/ IsMono(x) /\ MonoExp(x) % 2 = 0 /\ R2SqrtKnown(x[MonoExp(x)])

Sqrt(x) ==
    IF x = Zero THEN Zero
    ELSE IF HasRoot(x) THEN Mono(R2Sqrt(x[MonoExp(x)]), MonoExp(x) \div 2)
    ELSE Surd(x)

\* x = 0 for a scalar or a symbolic root (sqrt(y) with y # 0 is positive)
IsZero(x) == x = Zero

----------------------------------------------------------------------------
(* Angles m*pi/4: sin, cos, acos and atan2 are exact on them *)

QuarterTurn(m) == PiTimes(m, 4)

\* x = m*pi/4 for an integer m: a rational multiple of pi with denominator 1, 2 or 4
IsAngle(x) ==
    \/ x = Zero
    \/ DOMAIN x = {1} /\ x[1][2] = 0 /\ 4 % x[1][3] = 0

\* m mod 8 for x = m*pi/4
AngleIndex(x) == IF x = Zero THEN 0 ELSE (x[1][1] * (4 \div x[1][3])) % 8

HalfSqrt2 == Mono(R2(0, 1, 2), 0)

SinTable == <<Zero, HalfSqrt2, One, HalfSqrt2, Zero, Neg(HalfSqrt2), Neg(One), Neg(HalfSqrt2)>>

\* sin(m*pi/4) and cos(m*pi/4)
SinQ(m) == SinTable[(m % 8) + 1]
CosQ(m) == SinTable[((m + 2) % 8) + 1]

Sin(x) == SinQ(AngleIndex(x))

Cos(x) == CosQ(AngleIndex(x))

Acos(c) == QuarterTurn(CHOOSE m \in 0..4 : CosQ(m) = c)

\* the angle in (-pi, pi] of the point (x, y) at distance r > 0 from the origin
AngleOf(y, x, r) ==
    QuarterTurn(CHOOSE m \in -3..4 :
                    /\ Mul(r, SinQ(m)) = y
                    /\ Mul(r, CosQ(m)) = x)

\* atan2(y, x) in (-pi, pi]; atan2(0, 0) = 0
Atan2(y, x) ==
    IF x = Zero /\ y = Zero THEN Zero
    ELSE AngleOf(y, x, Sqrt(Add(Mul(x, x), Mul(y, y))))

----------------------------------------------------------------------------
(* nalgebra Vector3 / Vector6: tuples of scalars *)

Two == Rat(2, 1)

Vec3(x, y, z) == <<x, y, z>>

ZeroVec3 == <<Zero, Zero, Zero>>

VAdd(u, v) == [n \in DOMAIN u |-> Add(u[n], v[n])]

VNeg(u) == [n \in DOMAIN u |-> Neg(u[n])]

\* mul_by_nalgebra_matrix_ref: the scalar times every component
VScale(a, u) == [n \in DOMAIN u |-> Mul(a, u[n])]

Dot(u, v) == Add(Add(Mul(u[1], v[1]), Mul(u[2], v[2])), Mul(u[3], v[3]))

Cross(u, v) ==
    <<Sub(Mul(u[2], v[3]), Mul(u[3], v[2])),
      Sub(Mul(u[3], v[1]), Mul(u[1], v[3])),
      Sub(Mul(u[1], v[2]), Mul(u[2], v[1]))>>

RECURSIVE SumSquares(_, _)
SumSquares(u, n) == IF n = 0 THEN Zero ELSE Add(SumSquares(u, n - 1), Mul(u[n], u[n]))

NormSquared(u) == SumSquares(u, Len(u))

Norm(u) == Sqrt(NormSquared(u))

----------------------------------------------------------------------------
(* nalgebra Quaternion / UnitQuaternion: [w, i, j, k] *)

Quat(w, i, j, k) == [w |-> w, i |-> i, j |-> j, k |-> k]

QuatIdentity == Quat(One, Zero, Zero, Zero)

Imag(a) == <<a.i, a.j, a.k>>

Coords(a) == <<a.i, a.j, a.k, a.w>>

QuatNeg(a) == Quat(Neg(a.w), Neg(a.i), Neg(a.j), Neg(a.k))

QuatScale(s, a) == Quat(Mul(s, a.w), Mul(s, a.i), Mul(s, a.j), Mul(s, a.k))

QuatAdd(a, b) == Quat(Add(a.w, b.w), Add(a.i, b.i), Add(a.j, b.j), Add(a.k, b.k))

QuatDot(a, b) ==
    Add(Add(Mul(a.w, b.w), Mul(a.i, b.i)), Add(Mul(a.j, b.j), Mul(a.k, b.k)))

QuatNormSquared(a) == QuatDot(a, a)

\* &self.rotation * &other.rotation: the Hamilton product
QuatMul(a, b) ==
    Quat(Sub(Sub(Mul(a.w, b.w), Mul(a.i, b.i)), Add(Mul(a.j, b.j), Mul(a.k, b.k))),
         Add(Add(Mul(a.w, b.i), Mul(a.i, b.w)), Sub(Mul(a.j, b.k), Mul(a.k, b.j))),
         Add(Sub(Mul(a.w, b.j), Mul(a.i, b.k)), Add(Mul(a.j, b.w), Mul(a.k, b.i))),
         Add(Add(Mul(a.w, b.k), Mul(a.i, b.j)), Sub(Mul(a.k, b.w), Mul(a.j, b.i))))

\* UnitQuaternion::inverse: the conjugate
QuatInverse(a) == Quat(a.w, Neg(a.i), Neg(a.j), Neg(a.k))

\* &rotation * &vector: t = 2 (v x u); u + w t + v x t
RotateWith(a, u, t) == VAdd(VAdd(VScale(a.w, t), Cross(Imag(a), t)), u)

QuatRotate(a, u) == RotateWith(a, u, VScale(Two, Cross(Imag(a), u)))

\* UnitQuaternion::from_quaternion: the quaternion divided by its norm
FromQuaternion(a) == QuatScale(Inv(Sqrt(QuatNormSquared(a))), a)

\* UnitQuaternion == UnitQuaternion: equal coordinates, or all negated (q and -q
\* are one rotation)
SameRotation(a, b) == a = b \/ a = QuatNeg(b)

\* UnitQuaternion::from_scaled_axis: exp of the pure quaternion axisangle/2
QuatFromParts(w, v) == Quat(w, v[1], v[2], v[3])

\* Quaternion::exp of the pure quaternion h of norm n
PureQuatExp(h, n) ==
    IF n = Zero THEN QuatIdentity
    ELSE QuatFromParts(Cos(n), VScale(Div(Sin(n), n), h))

HalfVec(v) == VScale(Rat(1, 2), v)

FromScaledAxis(v) == PureQuatExp(HalfVec(v), Norm(HalfVec(v)))

\* UnitQuaternion::scaled_axis: the axis (of the quaternion with w >= 0) times
\* the angle 2 atan2(|v|, |w|)
AbsS(x) == IF Sign(x) >= 0 THEN x ELSE Neg(x)

\* the axis times the angle, for the imaginary part v of norm n and |w|
AxisTimesAngle(v, n, w) ==
    IF n = Zero THEN ZeroVec3
    ELSE VScale(Mul(Two, Atan2(n, w)), VScale(Inv(n), v))

ScaledAxis(a) ==
    AxisTimesAngle(IF Sign(a.w) >= 0 THEN Imag(a) ELSE VNeg(Imag(a)),
                   Norm(Imag(a)), AbsS(a.w))

\* sin of the angle between unit vectors of dot product c_hang
SinHang(c_hang) == Sqrt(Sub(One, Mul(c_hang, c_hang)))

\* Unit<Vector4>::try_slerp gives None: the two differ and sin(angle) is zero up to
\* the epsilon of the scalar type (2^-52 for f64)
SlerpIsNone(c_hang) == ~Ge(c_hang, One) /\ LtPow10(SinHang(c_hang), 15)

TrySlerpCoordsIsNone(a, b) == SlerpIsNone(QuatDot(a, b))

\* a variant of SlerpBlend that blends along the chord instead of the arc
SlerpLinear(a, b, t, hang, s_hang) ==
    QuatAdd(QuatScale(Sub(One, t), a), QuatScale(t, b))

SlerpBlend(a, b, t, hang, s_hang) ==
    QuatAdd(QuatScale(Div(Sin(Mul(Sub(One, t), hang)), s_hang), a),
            QuatScale(Div(Sin(Mul(t, hang)), s_hang), b))

SlerpWith(a, b, t, c_hang) ==
    IF Ge(c_hang, One) THEN a
    ELSE SlerpBlend(a, b, t, Acos(c_hang), SinHang(c_hang))

\* Unit<Vector4>::try_slerp, when it gives Some
TrySlerpCoords(a, b, t) == SlerpWith(a, b, t, QuatDot(a, b))

\* UnitQuaternion::try_slerp: along the shorter arc (other negated when the dot
\* product is negative)
TrySlerpIsNone(a, b) ==
    IF Lt(QuatDot(a, b), Zero) THEN TrySlerpCoordsIsNone(a, QuatNeg(b))
    ELSE TrySlerpCoordsIsNone(a, b)

TrySlerp(a, b, t) ==
    IF Lt(QuatDot(a, b), Zero) THEN TrySlerpCoords(a, QuatNeg(b), t)
    ELSE TrySlerpCoords(a, b, t)

\* the rotations the model follows: cos(m pi/4) + sin(m pi/4) k and
\* cos(m pi/4) i + sin(m pi/4) j (the binary dihedral group of order 16)
InGroup(a) == (a.i = Zero /\ a.j = Zero) \/ (a.w = Zero /\ a.k = Zero)

\* slerp stays in the model: the angles it takes the sine of are multiples of
\* pi/4 and its result is in the group
SlerpAnglesInDomain(a, b, t, c) ==
    \/ Ge(c, One)
    \/ /\ IsAngle(Mul(t, Acos(c)))
       /\ IsAngle(Mul(Sub(One, t), Acos(c)))
       /\ InGroup(TrySlerp(a, b, t))

SlerpInDomain(a, b, t) == SlerpAnglesInDomain(a, b, t, AbsS(QuatDot(a, b)))

----------------------------------------------------------------------------
(* The Lie-algebra kernel: generic_pose_ln, generic_pose_exp *)

\* T::constant(0.00000000000001) = 10^(-LnThresholdExp)
LnThresholdExp == 14

\* T::constant(0.00000001) = 10^(-ExpThresholdExp)
ExpThresholdExp == 8

\* a variant of ln_a that loses the rotation part of the logarithm
ln_a_never(s, phi) == Zero

\* the branch conditions that stand before the divisions
ln_s_positive(s) == Gt(s, Zero)

\* a variant of ln_s_small that never takes the series branch
ln_s_small_never(s) == FALSE

ln_s_small(s) == LtPow10(s, LnThresholdExp)

ln_phi_small(phi) == LtPow10(phi, LnThresholdExp)

exp_phi_small(phi) == LtPow10(phi, ExpThresholdExp)

\* a = phi / s if s > 0, else 0
ln_a(s, phi) == IF ln_s_positive(s) THEN Div(phi, s) ELSE Zero

\* a variant of ln_mu_r that chooses its branch on phi, as mu_d does
ln_mu_r_on_phi(s, c, phi) ==
    IF ln_phi_small(phi)
    THEN Sub(Sub(One, Div(Powi(phi, 2), Rat(3, 1))), Div(Powi(phi, 4), Rat(45, 1)))
    ELSE Div(Mul(c, phi), s)

ln_mu_r(s, c, phi) ==
    IF ln_s_small(s)
    THEN Sub(Sub(One, Div(Powi(phi, 2), Rat(3, 1))), Div(Powi(phi, 4), Rat(45, 1)))
    ELSE Div(Mul(c, phi), s)

ln_mu_d(phi, mu_r) ==
    IF ln_phi_small(phi)
    THEN Add(Add(Div(One, Rat(3, 1)), Div(Powi(phi, 2), Rat(45, 1))),
             Div(Mul(Two, Powi(phi, 4)), Rat(945, 1)))
    ELSE Div(Sub(One, mu_r), Powi(phi, 2))

ln_translation_diff(mu_d, mu_r, tmp, rot_vec_diff) ==
    VAdd(VAdd(VScale(Mul(mu_d, Dot(tmp, rot_vec_diff)), rot_vec_diff),
              VScale(mu_r, tmp)),
         Cross(tmp, rot_vec_diff))

ln_out_vec(rot_vec_diff, translation_diff) ==
    <<rot_vec_diff[1], rot_vec_diff[2], rot_vec_diff[3],
      translation_diff[1], translation_diff[2], translation_diff[3]>>

ln_with_mu(translation, rot_vec_diff, mu_r, mu_d) ==
    ln_out_vec(rot_vec_diff,
               ln_translation_diff(mu_d, mu_r, VScale(Inv(Two), translation),
                                   rot_vec_diff))

ln_with_mu_r(translation, rot_vec_diff, phi, mu_r) ==
    ln_with_mu(translation, rot_vec_diff, mu_r, ln_mu_d(phi, mu_r))

ln_with_phi(translation, h_v, s, c, phi) ==
    ln_with_mu_r(translation, VScale(ln_a(s, phi), h_v), phi, ln_mu_r(s, c, phi))

ln_with_s(translation, h_v, s, c) == ln_with_phi(translation, h_v, s, c, Atan2(s, c))

generic_pose_ln(translation, rotation) ==
    ln_with_s(translation, Vec3(rotation.i, rotation.j, rotation.k),
              Norm(Vec3(rotation.i, rotation.j, rotation.k)), rotation.w)

\* a variant of exp_mu_r without the series branch
exp_mu_r_closed(phi, s) == Div(s, phi)

exp_mu_r(phi, s) ==
    IF exp_phi_small(phi)
    THEN Add(Sub(One, Div(Powi(phi, 2), Rat(6, 1))), Div(Powi(phi, 4), Rat(120, 1)))
    ELSE Div(s, phi)

exp_mu_d(phi, c, mu_r) ==
    IF exp_phi_small(phi)
    THEN Add(Sub(Rat(4, 3), Div(Mul(Rat(4, 1), Powi(phi, 2)), Rat(15, 1))),
             Div(Mul(Rat(8, 1), Powi(phi, 4)), Rat(315, 1)))
    ELSE Div(Sub(Two, Mul(c, Mul(Two, mu_r))), Powi(phi, 2))

exp_rotation(c, h_v) == FromQuaternion(Quat(c, h_v[1], h_v[2], h_v[3]))

exp_translation(w, v, c, mu_r, mu_d, h_v, gamma) ==
    VAdd(VAdd(VScale(Two, VScale(mu_r, Cross(h_v, v))),
              VScale(Mul(Mul(c, Two), mu_r), v)),
         VScale(Mul(mu_d, gamma), w))

exp_with_mu(w, v, c, mu_r, mu_d, h_v) ==
    <<exp_translation(w, v, c, mu_r, mu_d, h_v, Dot(w, v)), exp_rotation(c, h_v)>>

exp_with_mu_r(w, v, phi, c, mu_r) ==
    exp_with_mu(w, v, c, mu_r, exp_mu_d(phi, c, mu_r), VScale(mu_r, w))

exp_with_phi(w, v, phi) ==
    exp_with_mu_r(w, v, phi, Cos(phi), exp_mu_r(phi, Sin(phi)))

generic_pose_exp(ln_vec) ==
    exp_with_phi(Vec3(ln_vec[1], ln_vec[2], ln_vec[3]),
                 Vec3(ln_vec[4], ln_vec[5], ln_vec[6]),
                 Norm(Vec3(ln_vec[1], ln_vec[2], ln_vec[3])))

\* the rotation generators exp can take the sine of: |w| a multiple of pi/4
ExpInDomain(ln_vec) == IsAngle(Norm(<<ln_vec[1], ln_vec[2], ln_vec[3]>>))

----------------------------------------------------------------------------
(* Poses: [translation, rotation] in either representation *)

ImplicitDualQuaternion == "ImplicitDualQuaternion"
NalgebraIsometry3 == "NalgebraIsometry3"

O3DPoseType == {ImplicitDualQuaternion, NalgebraIsometry3}

Pose(t, r) == [translation |-> t, rotation |-> r]

\* Vector3::from_column_slice: the first three elements; fewer than three panic
SliceFits(slice) == Len(slice) >= 3

from_column_slice(slice) == <<slice[1], slice[2], slice[3]>>

\* O3DRotationConstructor::construct of a triple [T; 3]; the model's triples turn
\* about one coordinate axis, which Euler angles and a scaled axis read alike
construct(rc) == FromScaledAxis(rc)

\* O3DRotation::scaled_axis_of_rotation of a UnitQuaternion
scaled_axis_of_rotation(r) == ScaledAxis(r)

\* O3DRotation::from_scaled_axis_of_rotation for UnitQuaternion
from_scaled_axis_of_rotation(v) == FromScaledAxis(v)

(* impl O3DPose for ImplicitDualQuaternion *)

IdqFromTranslationAndRotation(location, orientation) ==
    Pose(from_column_slice(location),
         FromScaledAxis(scaled_axis_of_rotation(orientation)))

IdqFromTranslationAndRotationConstructor(translation, rotation_constructor) ==
    Pose(from_column_slice(translation), construct(rotation_constructor))

\* a variant of IdqIdentity with a translation that is not zero
IdqIdentityShifted == Pose(<<One, Zero, Zero>>, QuatIdentity)

IdqIdentity ==
    IdqFromTranslationAndRotationConstructor(ZeroVec3, ZeroVec3)

\* a variant of IdqMul that leaves out the receiver's translation
IdqMulUnshifted(self, other) ==
    Pose(QuatRotate(self.rotation, other.translation),
         QuatMul(self.rotation, other.rotation))

\* a variant of IdqMul that turns the wrong translation, by the wrong rotation
IdqMulRightRotated(self, other) ==
    Pose(VAdd(QuatRotate(other.rotation, self.translation), other.translation),
         QuatMul(self.rotation, other.rotation))

IdqMul(self, other) ==
    LET orientation == QuatMul(self.rotation, other.rotation)
        location == VAdd(QuatRotate(self.rotation, other.translation), self.translation)
    IN  Pose(location, orientation)

\* a variant of IdqInverse that negates the translation without turning it
IdqInverseUnrotated(self) == Pose(VNeg(self.translation), QuatInverse(self.rotation))

IdqInverse(self) ==
    LET orientation == QuatInverse(self.rotation)
        location == QuatRotate(orientation, VNeg(self.translation))
    IN  Pose(location, orientation)

\* a variant of IdqDisplacement that composes in the other order
IdqDisplacementReversed(self, other) == IdqMul(other, IdqInverse(self))

IdqDisplacement(self, other) == IdqMul(IdqInverse(self), other)

IdqLn(self) == generic_pose_ln(self.translation, self.rotation)

PoseOfPair(res) == Pose(res[1], res[2])

IdqExp(ln_vec) == PoseOfPair(generic_pose_exp(ln_vec))

IdqDis(self, other) == Norm(IdqLn(IdqDisplacement(self, other)))

\* self.rotation.slerp(..): expect() panics when try_slerp gives None
IdqInterpolatePanics(self, to) == TrySlerpIsNone(self.rotation, to.rotation)

\* a variant of IdqInterpolate whose translation stops halfway to the target
IdqInterpolateShort(self, to, t) ==
    Pose(VAdd(VScale(Sub(One, t), self.translation),
              VScale(Mul(Rat(1, 2), t), to.translation)),
         TrySlerp(self.rotation, to.rotation, t))

IdqInterpolate(self, to, t) ==
    LET orientation == TrySlerp(self.rotation, to.rotation, t)
        location == VAdd(VScale(Sub(One, t), self.translation), VScale(t, to.translation))
    IN  Pose(location, orientation)

(* impl O3DPose for Isometry3 *)

IsoFromTranslationAndRotation(translation, rotation) ==
    Pose(Vec3(translation[1], translation[2], translation[3]),
         FromScaledAxis(scaled_axis_of_rotation(rotation)))

IsoFromTranslationAndRotationConstructor(translation, rotation_constructor) ==
    LET rotation == construct(rotation_constructor)
    IN  IsoFromTranslationAndRotation(translation, rotation)

IsoIdentity ==
    IsoFromTranslationAndRotationConstructor(ZeroVec3, ZeroVec3)

\* a variant of IsoMul that adds the translations without turning the second
IsoMulUnrotated(self, other) ==
    Pose(VAdd(self.translation, other.translation),
         QuatMul(self.rotation, other.rotation))

\* Isometry3 * Isometry3: translation + rotation * rhs.translation, rotation * rhs.rotation
IsoMul(self, other) ==
    LET shift == QuatRotate(self.rotation, other.translation)
    IN  Pose(VAdd(self.translation, shift), QuatMul(self.rotation, other.rotation))

\* Isometry3::inverse: invert the rotation, negate the translation and rotate it
IsoInverse(self) ==
    LET rotation == QuatInverse(self.rotation)
    IN  Pose(QuatRotate(rotation, VNeg(self.translation)), rotation)

IsoDisplacement(self, other) == IsoMul(IsoInverse(self), other)

LnNorm(disp) == Norm(generic_pose_ln(disp.translation, disp.rotation))

IsoDis(self, other) == LnNorm(IsoDisplacement(self, other))

IsoInterpolatePanics(self, to) == TrySlerpIsNone(self.rotation, to.rotation)

\* Isometry3::lerp_slerp: translation lerp self*(1 - t) + to*t, rotation slerp
IsoInterpolate(self, to, t) ==
    LET tr == VAdd(VScale(Sub(One, t), self.translation), VScale(t, to.translation))
        rot == TrySlerp(self.rotation, to.rotation, t)
    IN  Pose(tr, rot)

(* the trait's methods, for the representation a run is instantiated at *)

identity(k) == IF k = ImplicitDualQuaternion THEN IdqIdentity ELSE IsoIdentity

from_translation_and_rotation(k, t, r) ==
    IF k = ImplicitDualQuaternion THEN IdqFromTranslationAndRotation(t, r)
    ELSE IsoFromTranslationAndRotation(t, r)

from_translation_and_rotation_constructor(k, t, rc) ==
    IF k = ImplicitDualQuaternion THEN IdqFromTranslationAndRotationConstructor(t, rc)
    ELSE IsoFromTranslationAndRotationConstructor(t, rc)

mul(k, self, other) ==
    IF k = ImplicitDualQuaternion THEN IdqMul(self, other) ELSE IsoMul(self, other)

inverse(k, self) ==
    IF k = ImplicitDualQuaternion THEN IdqInverse(self) ELSE IsoInverse(self)

displacement(k, self, other) ==
    IF k = ImplicitDualQuaternion THEN IdqDisplacement(self, other)
    ELSE IsoDisplacement(self, other)

dis(k, self, other) ==
    IF k = ImplicitDualQuaternion THEN IdqDis(self, other) ELSE IsoDis(self, other)

interpolate_panics(k, self, to) ==
    IF k = ImplicitDualQuaternion THEN IdqInterpolatePanics(self, to)
    ELSE IsoInterpolatePanics(self, to)

interpolate(k, self, to, t) ==
    IF k = ImplicitDualQuaternion THEN IdqInterpolate(self, to, t)
    ELSE IsoInterpolate(self, to, t)

----------------------------------------------------------------------------
(* The codec: o3d_pose_custom_serialize, O3dPoseMyVisitor::visit_seq *)

TupleLen == 6

\* a scalar of type T: AD, its value and its derivative part (for f64 there is
\* no derivative part, which the model writes as a derivative part of zero)
Dual(value, tangent) == [value |-> value, tangent |-> tangent]

Duals(values, tangents) == [n \in 1..3 |-> Dual(values[n], tangents[n])]

\* the value and the derivative part added up
to_constant_with_tangent(x) == Add(x.value, x.tangent)

\* AD::to_constant: the value part as an f64
to_constant(x) == x.value

\* AD::constant: the scalar with this value and no derivative part
constant(x) == Dual(x, Zero)

\* the rotation's three values written ahead of the translation's
slice_as_f64_rotation_first(translation_slice, rotation_slice) ==
    <<to_constant(rotation_slice[1]), to_constant(rotation_slice[2]),
      to_constant(rotation_slice[3]), to_constant(translation_slice[1]),
      to_constant(translation_slice[2]), to_constant(translation_slice[3])>>

\* the six values written, in order
slice_as_f64(translation_slice, rotation_slice) ==
    <<to_constant(translation_slice[1]), to_constant(translation_slice[2]),
      to_constant(translation_slice[3]), to_constant(rotation_slice[1]),
      to_constant(rotation_slice[2]), to_constant(rotation_slice[3])>>

\* the pose `value` whose translation and scaled axis have the derivative parts
\* d[1..3] and d[4..6]
o3d_pose_custom_serialize(value, d) ==
    slice_as_f64(Duals(value.translation, <<d[1], d[2], d[3]>>),
                 Duals(scaled_axis_of_rotation(value.rotation), <<d[4], d[5], d[6]>>))

\* next_element().expect("error").expect("error") on an exhausted sequence
visit_seq_panics(seq) == Len(seq) < TupleLen

\* the scaled axis read with the opposite sign
visit_seq_axis_negated(k, seq) ==
    LET translation == <<seq[1], seq[2], seq[3]>>
        rotation == from_scaled_axis_of_rotation(VNeg(<<seq[4], seq[5], seq[6]>>))
    IN  from_translation_and_rotation(k, translation, rotation)

visit_seq(k, seq) ==
    LET translation == <<constant(seq[1]).value, constant(seq[2]).value,
                         constant(seq[3]).value>>
        rotation == from_scaled_axis_of_rotation(
                        <<constant(seq[4]).value, constant(seq[5]).value,
                          constant(seq[6]).value>>)
    IN  from_translation_and_rotation(k, translation, rotation)

\* the derivative parts of the six scalars visit_seq builds the pose from
visit_seq_derivative(seq) == [n \in 1..TupleLen |-> constant(seq[n]).tangent]

----------------------------------------------------------------------------
(* Bounds and inputs *)

\* the longest chain of derived poses taken from a derived pose
MaxSteps == 1

\* rotations about z by 0 .. MaxQuarterTurns quarter turns, as stored quaternions
\* (cos(m pi/4), 0, 0, sin(m pi/4)): from 3 on the stored w is negative
MaxQuarterTurns == 4

\* the longest slice passed to update_translation
MaxSliceLen == 4

\* the longest sequence handed to the decoder
MaxSeqLen == 7

RotZ(m) == Quat(Cos(QuarterTurn(m)), Zero, Zero, Sin(QuarterTurn(m)))

RotX180 == Quat(Zero, One, Zero, Zero)

Rotations == {RotZ(m) : m \in 0..MaxQuarterTurns} \cup {RotX180}

Translations == {ZeroVec3, <<One, Zero, Zero>>}

\* triples [T; 3] given as rotation constructors: a turn about one axis
RotationConstructors ==
    {ZeroVec3, <<Zero, Zero, PiTimes(1, 2)>>, <<Zero, Zero, PiTimes(1, 1)>>,
     <<Zero, Zero, PiTimes(3, 2)>>, <<PiTimes(1, 1), Zero, Zero>>}

Slices == {[n \in 1..len |-> IF n = 1 THEN One ELSE Zero] : len \in 2..MaxSliceLen}

Others ==
    {Pose(ZeroVec3, QuatIdentity),
     Pose(<<One, Rat(2, 1), Rat(3, 1)>>, RotZ(3))}

Parameters == {Zero, Rat(1, 2), One, Two}

ZeroDerivative == [n \in 1..6 |-> Zero]

\* the derivative parts the scalars given to a constructor or an update carry:
\* none for T = f64, some for an autodiff type such as adfn
Derivatives ==
    IF scalar = "f64"
    THEN {ZeroDerivative}
    ELSE {ZeroDerivative, <<One, Zero, Zero, Zero, Zero, Rat(1, 2)>>}

\* derivative parts d, with those of the translation taken from e
WithTranslationOf(d, e) == <<e[1], e[2], e[3], d[4], d[5], d[6]>>

\* derivative parts d, with those of the rotation taken from e
WithRotationOf(d, e) == <<d[1], d[2], d[3], e[4], e[5], e[6]>>

EncodedElement(n) ==
    IF n = 6 THEN PiTimes(1, 2) ELSE IF n \in {4, 5} THEN Zero ELSE Rat(n, 1)

\* the empty sequence, and the lengths around the six the codec writes
EncodedLens == {0} \cup (TupleLen - 1)..MaxSeqLen

EncodedSeqs == {[n \in 1..len |-> EncodedElement(n)] : len \in EncodedLens}

----------------------------------------------------------------------------
(* optima_bevy_egui: OEguiEngine and its states *)

\* a HashMap as a function on the keys it holds
Insert(map, key, value) ==
    [x \in DOMAIN map \cup {key} |-> IF x = key THEN value ELSE map[x]]

EmptyMap == [x \in {} |-> x]

\* Pos2::default()
DefaultPos == "origin"

\* OEguiWindowState::new
OEguiWindowState(open, position, change_position) ==
    [open |-> open, position |-> position, change_position |-> change_position]

OEguiSidePanelState(open) == [open |-> open]

OEguiTopBottomPanelState(open) == [open |-> open]

OEguiSelectorResponse(selections) == [current_selections_as_ron_strings |-> selections]

\* OEguiEngine::new; of the widget responses the selectors' are kept
OEguiEngine ==
    [ui_contains_pointer |-> FALSE,
     window_states |-> EmptyMap,
     side_panel_states |-> EmptyMap,
     top_bottom_panel_states |-> EmptyMap,
     selector_responses |-> EmptyMap]

\* a variant of reset_on_frame that also closes the windows
reset_on_frame_closing(e) ==
    [e EXCEPT !.ui_contains_pointer = FALSE,
              !.window_states =
                  [id \in DOMAIN e.window_states |->
                      OEguiWindowState(FALSE, e.window_states[id].position, FALSE)]]

reset_on_frame(e) ==
    [e EXCEPT !.ui_contains_pointer = FALSE,
              !.window_states =
                  [id \in DOMAIN e.window_states |->
                      [e.window_states[id] EXCEPT !.change_position = FALSE]]]

\* open_window and close_window: the open flag set, the state created if absent
set_window_open(e, id_str, open) ==
    IF id_str \notin DOMAIN e.window_states
    THEN [e EXCEPT !.window_states =
             Insert(@, id_str, OEguiWindowState(open, DefaultPos, FALSE))]
    ELSE [e EXCEPT !.window_states[id_str].open = open]

open_window(e, id_str) == set_window_open(e, id_str, TRUE)

close_window(e, id_str) == set_window_open(e, id_str, FALSE)

set_position_of_window(e, id_str, pos) ==
    IF id_str \notin DOMAIN e.window_states
    THEN [e EXCEPT !.window_states = Insert(@, id_str, OEguiWindowState(TRUE, pos, TRUE))]
    ELSE [e EXCEPT !.window_states[id_str].position = pos,
                   !.window_states[id_str].change_position = TRUE]

set_side_panel_open(e, id_str, open) ==
    IF id_str \notin DOMAIN e.side_panel_states
    THEN [e EXCEPT !.side_panel_states = Insert(@, id_str, OEguiSidePanelState(open))]
    ELSE [e EXCEPT !.side_panel_states[id_str].open = open]

open_side_panel(e, id_str) == set_side_panel_open(e, id_str, TRUE)

close_side_panel(e, id_str) == set_side_panel_open(e, id_str, FALSE)

\* open_top_bottom_panel and close_top_bottom_panel: the state is looked up in
\* side_panel_states; None inserts into top_bottom_panel_states, Some sets the
\* flag of the side panel found
set_top_bottom_panel_open(e, id_str, open) ==
    IF id_str \notin DOMAIN e.side_panel_states
    THEN [e EXCEPT !.top_bottom_panel_states =
             Insert(@, id_str, OEguiTopBottomPanelState(open))]
    ELSE [e EXCEPT !.side_panel_states[id_str].open = open]

open_top_bottom_panel(e, id_str) == set_top_bottom_panel_open(e, id_str, TRUE)

close_top_bottom_panel(e, id_str) == set_top_bottom_panel_open(e, id_str, FALSE)

\* Mutex<OEguiEngine>: lock() on a mutex its own thread holds never returns
lock(m) == IF m = "free" THEN "held" ELSE "deadlock"

\* the guard dropped
unlock(m) == IF m = "held" THEN "free" ELSE m

\* a call that locks, works on the engine and drops the guard when it returns
locked(m) == unlock(lock(m))

\* a variant of drop_before_contents that holds the guard on
guard_kept(m) == m

\* the guard a container's show holds is dropped before the window or panel is
\* built and its contents run
drop_before_contents(m) == unlock(m)

\* the call made last: the method, the id it was given, whether the contents
\* closure was run, the position given to the method or handed by show to
\* Window::current_pos, and whether the user closed the window in the frame
Call(op, id, ran, pos, closed) ==
    [op |-> op, id |-> id, ran |-> ran, pos |-> pos, closed |-> closed]

NoPos == "none"

\* the engine, the mutex and the calls before any system ran
EngineNew ==
    /\ engine = OEguiEngine
    /\ mutex = "free"
    /\ frames = <<>>
    /\ call = Call("new", "", FALSE, NoPos, FALSE)

\* RobotStateEngine::new, and no link transform written
RobotStateEngineNew ==
    /\ robot_states = EmptyMap
    /\ robot_state_update_requests = <<>>
    /\ transforms = EmptyMap

----------------------------------------------------------------------------
(* The state machine: one pose of representation `kind`, the operation applied  *)
(* last with its receiver, arguments and result, and the length of the chain of *)
(* derived poses the last result stands at the end of.                          *)

None == "none"

Rec(op, status, self, other, arg, out) ==
    [op |-> op, status |-> status, self |-> self, other |-> other,
     arg |-> arg, out |-> out]

Running == last.status # "panic"

\* the operations that return a new pose
DerivedOps == {"mul", "inverse", "displacement", "interpolate", "exp"}

\* the last result is a pose a further operation can be called on
CanChain == last.status = "ok" /\ last.op \in DerivedOps /\ steps < MaxSteps

\* a derived operation is called on the pose, or on the pose returned last
Receiver(chained) == IF chained THEN last.out ELSE pose

\* the argument poses: a fixed few and the pose itself
Operands(chained) == IF chained THEN {pose} ELSE Others \cup {pose}

\* the interpolation parameters
Ts(chained) == IF chained THEN {Rat(1, 2)} ELSE Parameters

Chain(chained) ==
    /\ chained => CanChain
    /\ steps' = IF chained THEN steps + 1 ELSE 0

Init ==
    /\ kind \in O3DPoseType
    /\ scalar = "f64"
    /\ pose = identity(kind)
    /\ derivative = ZeroDerivative
    /\ last = Rec("identity", "ok", None, None, None, identity(kind))
    /\ steps = 0
    /\ EngineNew
    /\ RobotStateEngineNew

Identity ==
    /\ Running
    /\ pose' = identity(kind)
    /\ derivative' = ZeroDerivative
    /\ last' = Rec("identity", "ok", None, None, None, pose')
    /\ steps' = 0
    /\ UNCHANGED <<gui, robots, kind, scalar>>

FromTranslationAndRotation ==
    /\ Running
    /\ derivative' \in Derivatives
    /\ \E t \in Translations, r \in Rotations :
          /\ pose' = from_translation_and_rotation(kind, t, r)
          /\ last' = Rec("from_translation_and_rotation", "ok", None, None,
                         <<t, r>>, pose')
    /\ steps' = 0
    /\ UNCHANGED <<gui, robots, kind, scalar>>

FromTranslationAndRotationConstructor ==
    /\ Running
    /\ derivative' \in Derivatives
    /\ \E t \in Translations, rc \in RotationConstructors :
          /\ pose' = from_translation_and_rotation_constructor(kind, t, rc)
          /\ last' = Rec("from_translation_and_rotation_constructor", "ok", None,
                         None, <<t, rc>>, pose')
    /\ steps' = 0
    /\ UNCHANGED <<gui, robots, kind, scalar>>

UpdateTranslation ==
    /\ Running
    /\ \E translation \in Slices, d \in Derivatives :
          IF SliceFits(translation)
          THEN /\ pose' = [pose EXCEPT !.translation = from_column_slice(translation)]
               /\ derivative' = WithTranslationOf(derivative, d)
               /\ last' = Rec("update_translation", "ok", None, None, translation, pose')
          ELSE /\ pose' = pose
               /\ derivative' = derivative
               /\ last' = Rec("update_translation", "panic", None, None, translation,
                              None)
    /\ steps' = 0
    /\ UNCHANGED <<gui, robots, kind, scalar>>

UpdateRotationConstructor ==
    /\ Running
    /\ \E d \in Derivatives : derivative' = WithRotationOf(derivative, d)
    /\ \E orientation \in RotationConstructors :
          /\ pose' = [pose EXCEPT !.rotation = construct(orientation)]
          /\ last' = Rec("update_rotation_constructor", "ok", None, None, orientation,
                         pose')
    /\ steps' = 0
    /\ UNCHANGED <<gui, robots, kind, scalar>>

UpdateRotationNative ==
    /\ Running
    /\ \E d \in Derivatives : derivative' = WithRotationOf(derivative, d)
    /\ \E orientation \in Rotations :
          /\ pose' = [pose EXCEPT !.rotation = orientation]
          /\ last' = Rec("update_rotation_native", "ok", None, None, orientation, pose')
    /\ steps' = 0
    /\ UNCHANGED <<gui, robots, kind, scalar>>

\* update_rotation_direct written as a rebuild of the pose from the rotation alone
UpdateRotationDirectRebuilding ==
    /\ Running
    /\ \E d \in Derivatives : derivative' = WithRotationOf(derivative, d)
    /\ \E orientation \in Rotations :
          /\ pose' = from_translation_and_rotation(kind, ZeroVec3, orientation)
          /\ last' = Rec("update_rotation_direct", "ok", None, None, orientation, pose')
    /\ steps' = 0
    /\ UNCHANGED <<gui, robots, kind, scalar>>

UpdateRotationDirect ==
    /\ Running
    /\ \E d \in Derivatives : derivative' = WithRotationOf(derivative, d)
    /\ \E orientation \in Rotations :
          /\ pose' = [pose EXCEPT !.rotation =
                         FromScaledAxis(scaled_axis_of_rotation(orientation))]
          /\ last' = Rec("update_rotation_direct", "ok", None, None, orientation, pose')
    /\ steps' = 0
    /\ UNCHANGED <<gui, robots, kind, scalar>>

\* mul written as an update of the receiver: the product replaces the pose
MulOpInPlace ==
    /\ Running
    /\ \E other \in Operands(FALSE) :
          /\ pose' = mul(kind, pose, other)
          /\ last' = Rec("mul", "ok", pose, other, None, pose')
    /\ steps' = 0
    /\ UNCHANGED <<gui, robots, kind, scalar, derivative>>

MulOp ==
    /\ Running
    /\ \E chained \in BOOLEAN :
          /\ Chain(chained)
          /\ \E other \in Operands(chained) :
                last' = Rec("mul", "ok", Receiver(chained), other, None,
                            mul(kind, Receiver(chained), other))
    /\ UNCHANGED <<gui, robots, kind, scalar, pose, derivative>>

InverseOp ==
    /\ Running
    /\ \E chained \in BOOLEAN :
          /\ Chain(chained)
          /\ last' = Rec("inverse", "ok", Receiver(chained), None, None,
                         inverse(kind, Receiver(chained)))
    /\ UNCHANGED <<gui, robots, kind, scalar, pose, derivative>>

DisplacementOp ==
    /\ Running
    /\ \E chained \in BOOLEAN :
          /\ Chain(chained)
          /\ \E other \in Operands(chained) :
                last' = Rec("displacement", "ok", Receiver(chained), other, None,
                            displacement(kind, Receiver(chained), other))
    /\ UNCHANGED <<gui, robots, kind, scalar, pose, derivative>>

DisOp ==
    /\ Running
    /\ \E other \in Operands(FALSE) :
          last' = Rec("dis", "ok", pose, other, None, dis(kind, pose, other))
    /\ steps' = 0
    /\ UNCHANGED <<gui, robots, kind, scalar, pose, derivative>>

InterpolateOp ==
    /\ Running
    /\ \E chained \in BOOLEAN :
          /\ Chain(chained)
          /\ \E to \in Operands(chained), t \in Ts(chained) :
                /\ SlerpInDomain(Receiver(chained).rotation, to.rotation, t)
                /\ IF interpolate_panics(kind, Receiver(chained), to)
                   THEN last' = Rec("interpolate", "panic", Receiver(chained), to, t,
                                    None)
                   ELSE last' = Rec("interpolate", "ok", Receiver(chained), to, t,
                                    interpolate(kind, Receiver(chained), to, t))
    /\ UNCHANGED <<gui, robots, kind, scalar, pose, derivative>>

LnOp ==
    /\ Running
    /\ kind = ImplicitDualQuaternion
    /\ last' = Rec("ln", "ok", pose, None, None, IdqLn(pose))
    /\ steps' = 0
    /\ UNCHANGED <<gui, robots, kind, scalar, pose, derivative>>

ExpOp ==
    /\ Running
    /\ kind = ImplicitDualQuaternion
    /\ last.op = "ln"
    /\ ExpInDomain(last.out)
    /\ last' = Rec("exp", "ok", last.self, None, last.out, IdqExp(last.out))
    /\ steps' = 0
    /\ UNCHANGED <<gui, robots, kind, scalar, pose, derivative>>

Serialize ==
    /\ Running
    /\ last' = Rec("serialize", "ok", pose, None, None, o3d_pose_custom_serialize(pose, derivative))
    /\ steps' = 0
    /\ UNCHANGED <<gui, robots, kind, scalar, pose, derivative>>

\* deserialize_tuple(6, visitor): the visitor reads six elements; what a format
\* does with elements left over is the format's choice (strict formats report
\* them, others leave them unread)
Deserialize ==
    /\ Running
    /\ \E seq \in EncodedSeqs \cup (IF last.op = "serialize" THEN {last.out} ELSE {}),
          strict \in BOOLEAN :
          IF visit_seq_panics(seq)
          THEN /\ UNCHANGED <<pose, derivative>>
               /\ last' = Rec("deserialize", "panic", None, None, seq, None)
          ELSE IF strict /\ Len(seq) > TupleLen
          THEN /\ UNCHANGED <<pose, derivative>>
               /\ last' = Rec("deserialize", "err", None, None, seq, None)
          ELSE /\ pose' = visit_seq(kind, seq)
               /\ derivative' = visit_seq_derivative(seq)
               /\ last' = Rec("deserialize", "ok", None, None, seq, pose')
    /\ steps' = 0
    /\ UNCHANGED <<gui, robots, kind, scalar>>

Next ==
    \/ Identity
    \/ FromTranslationAndRotation
    \/ FromTranslationAndRotationConstructor
    \/ UpdateTranslation
    \/ UpdateRotationConstructor
    \/ UpdateRotationNative
    \/ UpdateRotationDirect
    \/ MulOp
    \/ InverseOp
    \/ DisplacementOp
    \/ DisOp
    \/ InterpolateOp
    \/ LnOp
    \/ ExpOp
    \/ Serialize
    \/ Deserialize

Spec == Init /\ [][Next]_vars

\* The codec over an autodiff scalar type: poses are built and updated from
\* scalars with derivative parts, encoded and decoded.
CodecInit ==
    /\ kind \in O3DPoseType
    /\ scalar = "adfn"
    /\ pose = identity(kind)
    /\ derivative = ZeroDerivative
    /\ last = Rec("identity", "ok", None, None, None, identity(kind))
    /\ steps = 0
    /\ EngineNew
    /\ RobotStateEngineNew

CodecNext ==
    \/ Identity
    \/ FromTranslationAndRotation
    \/ FromTranslationAndRotationConstructor
    \/ UpdateTranslation
    \/ UpdateRotationConstructor
    \/ UpdateRotationNative
    \/ UpdateRotationDirect
    \/ Serialize
    \/ Deserialize

CodecSpec == CodecInit /\ [][CodecNext]_vars

----------------------------------------------------------------------------
(* The egui state machine: the engine behind its mutex, driven by the engine's *)
(* methods and by the containers' show.  A show that runs its contents stays   *)
(* open as a frame; what the contents closure calls are the steps taken while  *)
(* the frame is open, and the frame's end is the rest of show.                 *)

WindowIds == {"a", "b"}

\* the windows of the program: "a" starts open, "b" starts closed
OEguiWindow == [id \in WindowIds |-> [start_open |-> id = "a"]]

\* one id, used for a side panel and for a top/bottom panel
PanelIds == {"a"}

Positions == {DefaultPos, "corner"}

\* container shows running their contents at once
MaxShows == 1

\* a thread blocked in lock() goes no further: the engine stays as it was
Locked(m, e) ==
    /\ mutex # "deadlock"
    /\ mutex' = m
    /\ engine' = IF m = "deadlock" THEN engine ELSE e

\* a method of the engine called through get_mutex_guard()
MethodAt(op, id, pos, e) ==
    /\ Locked(locked(mutex), e)
    /\ call' = Call(op, id, FALSE, pos, FALSE)
    /\ UNCHANGED <<frames, poses, robots>>

Method(op, id, e) == MethodAt(op, id, NoPos, e)

ResetOnFrame ==
    /\ frames = <<>>
    /\ Method("reset_on_frame", "", reset_on_frame(engine))

OpenWindow == \E id \in WindowIds : Method("open_window", id, open_window(engine, id))

CloseWindow == \E id \in WindowIds : Method("close_window", id, close_window(engine, id))

SetPositionOfWindow ==
    \E id \in WindowIds, pos \in Positions :
        MethodAt("set_position_of_window", id, pos, set_position_of_window(engine, id, pos))

OpenSidePanel == \E id \in PanelIds : Method("open_side_panel", id, open_side_panel(engine, id))

CloseSidePanel == \E id \in PanelIds : Method("close_side_panel", id, close_side_panel(engine, id))

OpenTopBottomPanel ==
    \E id \in PanelIds : Method("open_top_bottom_panel", id, open_top_bottom_panel(engine, id))

CloseTopBottomPanel ==
    \E id \in PanelIds : Method("close_top_bottom_panel", id, close_top_bottom_panel(engine, id))

\* a variant of window_contents_run that shows a window on its first show
window_contents_run_at_once(e, id, start_open) ==
    IF id \in DOMAIN e.window_states THEN e.window_states[id].open ELSE start_open

\* OEguiWindow::show runs add_contents in the Some branch, and egui runs the
\* closure of a window only when `open` is true
window_contents_run(e, id, start_open) ==
    id \in DOMAIN e.window_states /\ e.window_states[id].open

\* the position show hands to Window::current_pos
window_current_pos(state) == IF state.change_position THEN state.position ELSE NoPos

\* the end of OEguiWindow::show: the local `open` written back
write_back_open(e, id, open) == [e EXCEPT !.window_states[id].open = open]

\* a frame opens
Enter(container, id) == Append(frames, [container |-> container, id |-> id])

\* the None branch of a show: the guard dropped, the mutex locked again, the
\* state inserted, nothing else
Register(op, container, id, e, ran) ==
    /\ Locked(locked(unlock(lock(mutex))), e)
    /\ call' = Call(op, id, ran, NoPos, FALSE)
    /\ frames' = IF ran THEN Enter(container, id) ELSE frames

\* OEguiWindow::show, up to the point where add_contents runs; the whole of it
\* when the state is registered or the window is closed
ShowWindowOf(id, start_open, ran) ==
    IF id \notin DOMAIN engine.window_states
    THEN Register("show_window", "window", id,
             [engine EXCEPT !.window_states =
                 Insert(@, id, OEguiWindowState(start_open, DefaultPos, FALSE))], ran)
    ELSE /\ call' = Call("show_window", id, ran,
                         window_current_pos(engine.window_states[id]), FALSE)
         /\ IF ran
            THEN /\ Locked(drop_before_contents(lock(mutex)), engine)
                 /\ frames' = Enter("window", id)
            ELSE /\ Locked(locked(drop_before_contents(lock(mutex))),
                           write_back_open(engine, id, FALSE))
                 /\ UNCHANGED frames

ShowWindow ==
    /\ Len(frames) < MaxShows
    /\ \E id \in WindowIds :
          ShowWindowOf(id, OEguiWindow[id].start_open,
                       window_contents_run(engine, id, OEguiWindow[id].start_open))
    /\ UNCHANGED <<poses, robots>>

\* OEguiSidePanel::show and OEguiTopBottomPanel::show: Panel::show_animated runs
\* the closure while the panel is shown or animating, which egui decides
ShowPanelOf(op, container, states, id, registered) ==
    IF id \notin DOMAIN states
    THEN Register(op, container, id, registered, FALSE)
    ELSE \E ran \in BOOLEAN :
            /\ call' = Call(op, id, ran, NoPos, FALSE)
            /\ Locked(drop_before_contents(lock(mutex)), engine)
            /\ frames' = IF ran THEN Enter(container, id) ELSE frames

ShowSidePanel ==
    /\ Len(frames) < MaxShows
    /\ \E id \in PanelIds :
          ShowPanelOf("show_side_panel", "side_panel", engine.side_panel_states, id,
              [engine EXCEPT !.side_panel_states = Insert(@, id, OEguiSidePanelState(TRUE))])
    /\ UNCHANGED <<poses, robots>>

ShowTopBottomPanel ==
    /\ Len(frames) < MaxShows
    /\ \E id \in PanelIds :
          ShowPanelOf("show_top_bottom_panel", "top_bottom_panel",
              engine.top_bottom_panel_states, id,
              [engine EXCEPT !.top_bottom_panel_states =
                  Insert(@, id, OEguiTopBottomPanelState(TRUE))])
    /\ UNCHANGED <<poses, robots>>

\* the pointer check at the end of the closure
PointerChecked(does_ui_contain_cursor, e) ==
    IF does_ui_contain_cursor THEN [e EXCEPT !.ui_contains_pointer = TRUE] ELSE e

PointerLocked(does_ui_contain_cursor, m) == IF does_ui_contain_cursor THEN locked(m) ELSE m

\* the rest of a show once add_contents returned: the pointer check, and for a
\* window the mutex locked again and `open` written back
ShowEndOf(top, does_ui_contain_cursor, user_closed) ==
    /\ call' = Call("end_" \o top.container, top.id, TRUE, NoPos, user_closed)
    /\ frames' = SubSeq(frames, 1, Len(frames) - 1)
    /\ IF top.container = "window"
       THEN Locked(locked(PointerLocked(does_ui_contain_cursor, mutex)),
                   write_back_open(PointerChecked(does_ui_contain_cursor, engine),
                                   top.id, ~user_closed))
       ELSE /\ ~user_closed
            /\ Locked(PointerLocked(does_ui_contain_cursor, mutex),
                      PointerChecked(does_ui_contain_cursor, engine))

ShowEnd ==
    /\ frames # <<>>
    /\ \E does_ui_contain_cursor \in BOOLEAN, user_closed \in BOOLEAN :
          ShowEndOf(frames[Len(frames)], does_ui_contain_cursor, user_closed)
    /\ UNCHANGED <<poses, robots>>

EguiNext ==
    \/ ResetOnFrame
    \/ OpenWindow
    \/ CloseWindow
    \/ SetPositionOfWindow
    \/ OpenSidePanel
    \/ CloseSidePanel
    \/ OpenTopBottomPanel
    \/ CloseTopBottomPanel
    \/ ShowWindow
    \/ ShowSidePanel
    \/ ShowTopBottomPanel
    \/ ShowEnd

EguiInit == Init /\ kind = ImplicitDualQuaternion

EguiSpec == EguiInit /\ [][EguiNext]_vars

----------------------------------------------------------------------------
(* The robot state machine: RobotStateEngine, the requests systems add to it   *)
(* during a frame and system_robot_state_updater, which runs in the Last       *)
(* schedule.  A robot instance's link transforms are the forward kinematics of *)
(* one joint state; `transforms` keeps that joint state per instance.          *)

RobotInstances == {0, 1}

\* joint states of a robot with one degree of freedom, as values of T
JointStates == {<<Dual(Zero, Zero)>>, <<Dual(One, Zero)>>, <<Dual(One, One)>>,
                <<Dual(Rat(1, 2), Zero)>>}

\* requests pending at once
MaxRequests == 3

\* OVec::to_constant_vec, and ovec_to_other_ad_type::<f64>
to_constant_vec(state) == [n \in DOMAIN state |-> to_constant(state[n])]

\* request.1.iter().map(|x| T::constant(*x)).collect()
constant_vec(state) == [n \in DOMAIN state |-> constant(state[n])]

\* RobotStateEngine::add_update_request
add_update_request(requests, robot_instance_idx, state) ==
    Append(requests, <<robot_instance_idx, to_constant_vec(state)>>)

\* one turn of the updater's loop on the request popped: the state stored and
\* the links of the instance posed
apply_request(r, request) ==
    [robot_states |-> Insert(r.robot_states, request[1], to_constant_vec(constant_vec(request[2]))),
     transforms |-> Insert(r.transforms, request[1], constant_vec(request[2])),
     robot_state_update_requests |-> r.robot_state_update_requests]

\* Vec::pop: the last element taken off
pop(requests) == SubSeq(requests, 1, Len(requests) - 1)

\* system_robot_state_updater: while requests are left, pop one and apply it
RECURSIVE system_robot_state_updater(_)
system_robot_state_updater(r) ==
    IF Len(r.robot_state_update_requests) > 0
    THEN system_robot_state_updater(
             apply_request([r EXCEPT !.robot_state_update_requests = pop(@)],
                           r.robot_state_update_requests[Len(r.robot_state_update_requests)]))
    ELSE r

RobotCall(op) ==
    /\ call' = Call(op, "", FALSE, NoPos, FALSE)
    /\ UNCHANGED <<engine, mutex, frames, poses>>

AddUpdateRequest ==
    /\ Len(robot_state_update_requests) < MaxRequests
    /\ \E robot_instance_idx \in RobotInstances, state \in JointStates :
          robot_state_update_requests' =
              add_update_request(robot_state_update_requests, robot_instance_idx, state)
    /\ RobotCall("add_update_request")
    /\ UNCHANGED <<robot_states, transforms>>

Updated(r) ==
    /\ robot_states' = r.robot_states
    /\ transforms' = r.transforms
    /\ robot_state_update_requests' = r.robot_state_update_requests

SystemRobotStateUpdater ==
    /\ Updated(system_robot_state_updater(
           [robot_states |-> robot_states, transforms |-> transforms,
            robot_state_update_requests |-> robot_state_update_requests]))
    /\ RobotCall("system_robot_state_updater")

RobotNext ==
    \/ AddUpdateRequest
    \/ SystemRobotStateUpdater

RobotSpec == EguiInit /\ [][RobotNext]_vars

----------------------------------------------------------------------------
(* system_robot_main_info_panel_egui: the side panel whose contents are the    *)
(* joint sliders, with the egui machine around it and the updater after it.    *)

\* degrees of freedom of the robot shown
NumDofs == 2

\* the mutex through action_robot_joint_sliders_egui: per degree of freedom the
\* slider's show locks and unlocks, then a guard is taken and held over the
\* buttons to the end of the loop body; after the loops one more guard is held
\* to the end of the function
RECURSIVE joint_sliders_locks(_, _)
joint_sliders_locks(m, dofs) ==
    IF dofs = 0 THEN locked(m)
    ELSE joint_sliders_locks(unlock(lock(locked(m))), dofs - 1)

\* the sliders at their start value
curr_state == [i \in 1..NumDofs |-> constant(Zero)]

InContentsOf(container) == frames # <<>> /\ frames[Len(frames)].container = container

ActionRobotJointSliders ==
    /\ InContentsOf("side_panel")
    /\ Len(robot_state_update_requests) < MaxRequests
    /\ Locked(joint_sliders_locks(mutex, NumDofs), engine)
    /\ robot_state_update_requests' =
           IF mutex' = "deadlock" THEN robot_state_update_requests
           ELSE add_update_request(robot_state_update_requests, 0, curr_state)
    /\ call' = Call("action_robot_joint_sliders_egui", "", FALSE, NoPos, FALSE)
    /\ UNCHANGED <<frames, poses, robot_states, transforms>>

\* the Last schedule: no show is running
LastSystemRobotStateUpdater == frames = <<>> /\ SystemRobotStateUpdater

PanelNext ==
    \/ EguiNext
    \/ ActionRobotJointSliders
    \/ LastSystemRobotStateUpdater

PanelSpec == EguiInit /\ [][PanelNext]_vars

----------------------------------------------------------------------------
(* OEguiSelector: the selectors of a program, each shown under its own id, and *)
(* the selection list the engine stores for each                               *)

OEguiSelector(mode, choices, allow_multiple_selections) ==
    [egui_selector_mode |-> mode,
     selection_choices_as_ron_strings |-> choices,
     allow_multiple_selections |-> allow_multiple_selections]

\* the selector shown under each id; "text" has a choice listed twice
Selectors ==
    [id \in {"radio", "check", "text", "combo"} |->
        CASE id = "radio" -> OEguiSelector("RadioButtons", <<"x", "y", "z">>, FALSE)
          [] id = "check" -> OEguiSelector("Checkboxes", <<"x", "y", "z">>, TRUE)
          [] id = "text" -> OEguiSelector("SelectionText", <<"x", "x", "y">>, TRUE)
          [] id = "combo" -> OEguiSelector("ComboBox", <<"x", "y">>, FALSE)]

Contains(list, s) == \E n \in DOMAIN list : list[n] = s

\* Vec::retain(|x| x != s)
RECURSIVE Retain(_, _)
Retain(list, s) ==
    IF list = <<>> THEN <<>>
    ELSE IF list[1] = s THEN Retain(Tail(list), s)
         ELSE <<list[1]>> \o Retain(Tail(list), s)

\* 1 for a click on a choice not selected, -1 for a click on a selected one
selection_code(list, s, clicked) ==
    IF clicked THEN (IF ~Contains(list, s) THEN 1 ELSE 0 - 1) ELSE 0

\* a variant of select that adds every choice clicked to the list
select_pushing(list, s, code, shift_select) == IF code = 0 THEN list ELSE Append(list, s)

\* what the loop body does to the list for one choice
select(list, s, code, shift_select) ==
    IF code = 0 - 1 /\ shift_select THEN Retain(list, s)
    ELSE IF code = 0 - 1 THEN <<s>>
    ELSE IF code = 1 /\ Len(list) = 0 THEN Append(list, s)
    ELSE IF code = 1 /\ Len(list) >= 1 /\ shift_select THEN Append(list, s)
    ELSE IF code = 1 /\ Len(list) >= 1 THEN <<s>>
    ELSE list

\* the loop over the choices from the i-th on; `clicked` holds the indices of
\* the choices whose widget reports a click in this frame
RECURSIVE select_each(_, _, _, _, _)
select_each(list, selector, clicked, shift, i) ==
    IF i > Len(selector.selection_choices_as_ron_strings) THEN list
    ELSE select_each(
             select(list, selector.selection_choices_as_ron_strings[i],
                    selection_code(list, selector.selection_choices_as_ron_strings[i],
                                   i \in clicked),
                    selector.allow_multiple_selections /\ shift),
             selector, clicked, shift, i + 1)

\* the ComboBox: the first choice selected when nothing is, and a clicked
\* choice put in place of the selection
RECURSIVE combo_each(_, _, _, _)
combo_each(list, choices, clicked, i) ==
    IF i > Len(choices) THEN list
    ELSE combo_each(IF i \in clicked THEN <<choices[i]>> ELSE list, choices, clicked, i + 1)

combo_box(list, choices, clicked) ==
    combo_each(IF Len(list) = 0 THEN <<choices[1]>> ELSE list, choices, clicked, 1)

\* OEguiSelector::show on the responses the engine stores
selector_show(responses, selector, id_str, clicked, shift) ==
    IF id_str \notin DOMAIN responses
    THEN Insert(responses, id_str, OEguiSelectorResponse(<<>>))
    ELSE Insert(responses, id_str, OEguiSelectorResponse(
             IF selector.egui_selector_mode = "ComboBox"
             THEN combo_box(responses[id_str].current_selections_as_ron_strings,
                            selector.selection_choices_as_ron_strings, clicked)
             ELSE select_each(responses[id_str].current_selections_as_ron_strings,
                              selector, clicked, shift, 1)))

ShowSelectorOf(id, clicked, shift) ==
    /\ Locked(locked(mutex),
              [engine EXCEPT !.selector_responses =
                  selector_show(@, Selectors[id], id, clicked, shift)])
    /\ call' = Call("show_selector", id, clicked # {}, NoPos, shift)

ShowSelector ==
    /\ \E id \in DOMAIN Selectors :
          \E clicked \in SUBSET DOMAIN Selectors[id].selection_choices_as_ron_strings,
             shift \in BOOLEAN : ShowSelectorOf(id, clicked, shift)
    /\ UNCHANGED <<frames, poses, robots>>

SelectorNext ==
    \/ ShowSelector
    \/ ResetOnFrame

SelectorSpec == EguiInit /\ [][SelectorNext]_vars

----------------------------------------------------------------------------
(* Properties of the pose operations *)

Applied(op) == last.op = op /\ last.status = "ok"

IsUnit(r) == QuatNormSquared(r) = One

\* zero translation and the identity rotation; the unit quaternions 1 and -1 are
\* the same rotation, and UnitQuaternion's equality takes them as equal
IsIdentityPose(p) == p.translation = ZeroVec3 /\ SameRotation(p.rotation, QuatIdentity)

SamePose(p, q) == p.translation = q.translation /\ SameRotation(p.rotation, q.rotation)

\* a distance that is not zero is above zero (a root sqrt(y) stands for y # 0)
Positive(x) == IF IsSurd(x) THEN x[SurdKey] # Zero ELSE Sign(x) > 0

Turned(p) == p.translation # ZeroVec3 /\ ~SameRotation(p.rotation, QuatIdentity)

\* C1: in either representation, p.mul(identity()) is p and identity().mul(p) is p.
IdentityLaw ==
    Applied("mul") =>
        /\ last.other = identity(kind) => last.out = last.self
        /\ last.self = identity(kind) => last.out = last.other

IdentityLawWitness ==
    /\ Applied("mul")
    /\ kind = NalgebraIsometry3
    /\ last.other = identity(kind)
    /\ Turned(last.self)
    /\ last.out = last.self

\* C2: p.mul(p.inverse()) is the identity pose: zero translation, identity
\* rotation.
InverseLaw ==
    Applied("inverse") => mul(kind, last.self, last.out) = identity(kind)

InverseLawWitness ==
    /\ Applied("inverse")
    /\ Turned(last.self)
    /\ Sign(last.self.rotation.w) < 0
    /\ mul(kind, last.self, last.out) = identity(kind)

\* C3: mul is associative: a.mul(b).mul(c) is a.mul(b.mul(c)) for the poses a, b
\* of a product taken and every third pose c.
MulAssociative ==
    Applied("mul") =>
        \A c \in Others :
            mul(kind, last.out, c) = mul(kind, last.self, mul(kind, last.other, c))

MulAssociativeWitness ==
    /\ Applied("mul")
    /\ Turned(last.self)
    /\ last.self.rotation = RotX180
    /\ last.other = last.self
    /\ \E c \in Others : Turned(c) /\ mul(kind, last.other, c) # mul(kind, c, last.other)

\* C4: exp(ln(p)) is p for every ImplicitDualQuaternion p, whatever unit
\* quaternion it stores (identity, half turns, a negative w).
LogExpRoundTrip ==
    Applied("exp") => SamePose(last.out, last.self)

\* C5: dis(p, q) is 0 exactly when p.displacement(q) is the identity pose (so
\* dis(p, p) is 0), and is above 0 otherwise.
DisZeroIffSame ==
    Applied("dis") =>
        /\ last.out = Zero <=> IsIdentityPose(displacement(kind, last.self, last.other))
        /\ last.out # Zero => Positive(last.out)
        /\ last.self = last.other => last.out = Zero

DisZeroIffSameWitness ==
    /\ Applied("dis")
    /\ Turned(last.self)
    /\ last.other # last.self
    /\ Turned(displacement(kind, last.self, last.other))
    /\ last.out # Zero
    /\ Positive(last.out)

\* C6: decoding a sequence whose element count is not 6 ends with the Err result:
\* no pose comes out of it and it ends no other way.
WrongCountIsErr ==
    (last.op = "deserialize" /\ Len(last.arg) # TupleLen) => last.status = "err"

\* C7: no O3DPose operation fails, whatever slice update_translation is given
\* and whatever rotations and t interpolate is given.
NoPoseOperationFails ==
    last.op # "deserialize" => last.status = "ok"

\* C8: the rotation of the pose, and of every pose derived from it (interpolate
\* with t in [0, 1]), has unit norm.
RotationUnitNorm ==
    /\ IsUnit(pose.rotation)
    /\ (/\ last.op \in DerivedOps
        /\ last.status = "ok"
        /\ last.op = "interpolate" => Ge(last.arg, Zero) /\ Ge(One, last.arg))
       => IsUnit(last.out.rotation)

RotationUnitNormWitness ==
    /\ Applied("interpolate")
    /\ steps > 0
    /\ last.arg = Rat(1, 2)
    /\ last.out.rotation \notin {last.self.rotation, last.other.rotation}
    /\ IsUnit(last.out.rotation)

\* C9: in either representation, p.displacement(q) is p.inverse().mul(q).
DisplacementIsInverseMul ==
    Applied("displacement") =>
        last.out = mul(kind, inverse(kind, last.self), last.other)

DisplacementIsInverseMulWitness ==
    /\ Applied("displacement")
    /\ Turned(last.self)
    /\ Turned(last.other)
    /\ last.other # last.self
    /\ last.out = mul(kind, inverse(kind, last.self), last.other)

\* C10: in either representation, p.interpolate(q, 0) is p and p.interpolate(q, 1)
\* is q, in translation and in rotation.
InterpolateBoundaries ==
    Applied("interpolate") =>
        /\ last.arg = Zero => last.out = last.self
        /\ last.arg = One => SamePose(last.out, last.other)

InterpolateBoundariesWitness ==
    /\ Applied("interpolate")
    /\ last.arg = One
    /\ Turned(last.other)
    /\ ~SamePose(last.self, last.other)
    /\ SamePose(last.out, last.other)

\* the two representations built from one translation and one rotation
\* constructor: the same pose, at the same distance from every other pose
AgreeFrom(idq, iso) ==
    /\ SamePose(idq, iso)
    /\ \A other \in Others : IdqDis(idq, other) = IsoDis(iso, other)

\* C11: for the same inputs ImplicitDualQuaternion and Isometry3 agree: the
\* constructors, mul, inverse, displacement and interpolate give the same
\* translation and rotation and dis the same value, also for a pose one of
\* these operations returned.
RepresentationsAgree ==
    /\ Applied("from_translation_and_rotation") =>
           IdqFromTranslationAndRotation(last.arg[1], last.arg[2])
               = IsoFromTranslationAndRotation(last.arg[1], last.arg[2])
    /\ Applied("from_translation_and_rotation_constructor") =>
           AgreeFrom(IdqFromTranslationAndRotationConstructor(last.arg[1], last.arg[2]),
                     IsoFromTranslationAndRotationConstructor(last.arg[1], last.arg[2]))
    /\ Applied("mul") => IdqMul(last.self, last.other) = IsoMul(last.self, last.other)
    /\ Applied("inverse") => IdqInverse(last.self) = IsoInverse(last.self)
    /\ Applied("displacement") =>
           IdqDisplacement(last.self, last.other) = IsoDisplacement(last.self, last.other)
    /\ Applied("interpolate") =>
           IdqInterpolate(last.self, last.other, last.arg)
               = IsoInterpolate(last.self, last.other, last.arg)
    /\ Applied("dis") => IdqDis(last.self, last.other) = IsoDis(last.self, last.other)

\* C12: serialize writes exactly six values, the translation's x, y, z and then
\* the rotation's scaled axis x, y, z; deserialize reads six values and takes
\* them in the same order, the first three as the translation and the last
\* three as the scaled axis of the rotation.
CodecOrder ==
    /\ Applied("serialize") =>
           /\ Len(last.out) = TupleLen
           /\ \A n \in 1..3 :
                  /\ last.out[n] = last.self.translation[n]
                  /\ last.out[n + 3] = scaled_axis_of_rotation(last.self.rotation)[n]
    /\ Applied("deserialize") =>
           /\ last.out.translation = <<last.arg[1], last.arg[2], last.arg[3]>>
           /\ SameRotation(last.out.rotation,
                           from_scaled_axis_of_rotation(<<last.arg[4], last.arg[5], last.arg[6]>>))

\* a pose decoded from six values that tell the positions apart
CodecOrderWitness ==
    /\ Applied("deserialize")
    /\ Len(last.arg) = TupleLen
    /\ \A m, n \in 1..3 : m # n => last.arg[m] # last.arg[n]
    /\ last.arg[TupleLen] \notin {Zero, last.arg[1], last.arg[2], last.arg[3]}
    /\ last.out.translation # ZeroVec3

\* the step that decodes what the step before it encoded
DecodesEncoded ==
    /\ last.op = "serialize"
    /\ last'.op = "deserialize"
    /\ last'.status = "ok"
    /\ last'.arg = last.out

\* C13: decoding the encoding of a pose gives a pose with exactly the same
\* translation and a rotation with the same scaled axis (the same rotation).
CodecRoundTrip ==
    [][DecodesEncoded =>
          /\ pose'.translation = last.self.translation
          /\ scaled_axis_of_rotation(pose'.rotation)
                 = scaled_axis_of_rotation(last.self.rotation)
          /\ SameRotation(pose'.rotation, last.self.rotation)]_vars

\* a translated and turned pose that was decoded from its own encoding
CodecRoundTripWitness ==
    /\ Applied("deserialize")
    /\ Len(last.arg) = TupleLen
    /\ last.arg = o3d_pose_custom_serialize(last.out, derivative)
    /\ last.arg[1] = One
    /\ last.arg[2] = Zero
    /\ Turned(last.out)

\* the derivative parts a pose built from the inputs can carry
AllDerivatives == {WithRotationOf(d, e) : d, e \in Derivatives}

\* C14: the encoding depends only on the value parts of the scalars: the pose
\* encoded, given any other derivative parts, encodes to the same six values;
\* and the scalars of a decoded pose have no derivative parts.
EncodesConstantsOnly ==
    /\ Applied("serialize") =>
           \A d \in AllDerivatives : o3d_pose_custom_serialize(last.self, d) = last.out
    /\ Applied("deserialize") => derivative = ZeroDerivative

\* a translated and turned pose with derivative parts in its translation and
\* in its rotation was encoded
EncodesConstantsOnlyWitness ==
    /\ Applied("serialize")
    /\ Turned(pose)
    /\ derivative[1] # Zero
    /\ derivative[6] # Zero
    /\ Cardinality(AllDerivatives) > 1

\* the operations that take the receiver and the argument by shared reference
BorrowingOps == {"mul", "inverse", "displacement", "dis", "interpolate"}

\* C15: mul, inverse, displacement, dis and interpolate return a new value and
\* leave the receiver and the argument as they were: the stored pose is the
\* same after the call, and the receiver and the argument of the call are the
\* poses that were there before it.
BorrowsLeaveOperands ==
    [][last'.op \in BorrowingOps =>
          /\ pose' = pose
          /\ derivative' = derivative
          /\ last'.self = pose \/ (CanChain /\ last'.self = last.out)
          /\ last'.op = "inverse" \/ last'.other \in Others \cup {pose}]_vars

\* a translated and turned pose multiplied with itself: the product is another
\* pose, and the stored pose is still the receiver and the argument
BorrowsLeaveOperandsWitness ==
    /\ Applied("mul")
    /\ Turned(pose)
    /\ last.self = pose
    /\ last.other = pose
    /\ last.out # pose

\* the rotation an update_rotation_* call was given
Supplied(op, arg) == IF op = "update_rotation_constructor" THEN construct(arg) ELSE arg

RotationUpdates ==
    {"update_rotation_constructor", "update_rotation_native", "update_rotation_direct"}

\* C16: an update_translation that returns replaces the translation by the
\* three values given and leaves the rotation as it was; each update_rotation_*
\* replaces the rotation by a unit quaternion that is the rotation given (the
\* constructed and the native one are stored as given) and leaves the
\* translation as it was.
UpdatesKeepTheRest ==
    [][/\ (last'.op = "update_translation" /\ last'.status = "ok") =>
             /\ pose'.translation = <<last'.arg[1], last'.arg[2], last'.arg[3]>>
             /\ pose'.rotation = pose.rotation
       /\ last'.op \in RotationUpdates =>
             /\ pose'.translation = pose.translation
             /\ IsUnit(pose'.rotation)
             /\ SameRotation(pose'.rotation, Supplied(last'.op, last'.arg))
             /\ last'.op # "update_rotation_direct" =>
                    pose'.rotation = Supplied(last'.op, last'.arg)]_vars

\* update_rotation_direct on a translated pose, given a quaternion with negative w:
\* the rotation stored is the same rotation with the other sign
UpdatesKeepTheRestWitness ==
    /\ Applied("update_rotation_direct")
    /\ Turned(pose)
    /\ last.arg # pose.rotation
    /\ SameRotation(last.arg, pose.rotation)

\* C17: in either representation from_translation_and_rotation_constructor(t, c)
\* is the pose from_translation_and_rotation(t, c.construct()): the same
\* translation and the same stored rotation.
ConstructorAsConstructed ==
    Applied("from_translation_and_rotation_constructor") =>
        last.out = from_translation_and_rotation(kind, last.arg[1], construct(last.arg[2]))

\* the divisors of generic_pose_ln on the branches taken: s of phi / s,
\* s of (c * phi) / s, phi^2 of (1 - mu_r) / phi^2
LnDivisorsNonzero(s, phi) ==
    /\ ln_s_positive(s) => s # Zero
    /\ ~ln_s_small(s) => s # Zero
    /\ ~ln_phi_small(phi) => Powi(phi, 2) # Zero

LnTotal(p) ==
    LnDivisorsNonzero(Norm(Imag(p.rotation)),
                      Atan2(Norm(Imag(p.rotation)), p.rotation.w))

\* the divisors of generic_pose_exp on the branch taken: phi of s / phi and
\* phi^2 of (2 - 2 c mu_r) / phi^2
ExpDivisorsNonzero(phi) ==
    ~exp_phi_small(phi) => (phi # Zero /\ Powi(phi, 2) # Zero)

ExpTotal(ln_vec) == ExpDivisorsNonzero(Norm(<<ln_vec[1], ln_vec[2], ln_vec[3]>>))

\* C18: pose_ln and pose_exp are total: on every input they are applied to,
\* each division they carry out (by s, by phi, by phi^2) has a divisor that is
\* not zero, because the branch that divides is taken only when it is not.
KernelDivisionsGuarded ==
    /\ Applied("ln") => LnTotal(last.self)
    /\ Applied("dis") => LnTotal(displacement(kind, last.self, last.other))
    /\ Applied("exp") => ExpTotal(last.arg)

\* the logarithm of a pose with s = 0 (the identity rotation) was taken, where
\* both series branches are the ones that keep the divisions away
KernelDivisionsGuardedWitness ==
    /\ Applied("ln")
    /\ Norm(Imag(last.self.rotation)) = Zero
    /\ last.self.translation # ZeroVec3
    /\ ln_s_small(Zero)

\* translation (1, 0, 0), rotation by 90 degrees about z
QuarterTurnedUnit == Pose(<<One, Zero, Zero>>, RotZ(1))

\* translation (1, 1, 0), rotation by 180 degrees about z: the quaternion
\* (w, i, j, k) = (0, 0, 0, 1)
HalfTurnedDiagonal == Pose(<<One, One, Zero>>, Quat(Zero, Zero, Zero, One))

\* C19: for the pose p with translation (1, 0, 0) and rotation 90 degrees
\* about z, p.mul(p) has translation (1, 1, 0) and rotation 180 degrees about
\* z, in either representation.
ComposeWithItself ==
    (Applied("mul") /\ last.self = QuarterTurnedUnit /\ last.other = QuarterTurnedUnit)
        => last.out = HalfTurnedDiagonal

\* p.mul(p) was taken for this p as an Isometry3
ComposeWithItselfWitness ==
    /\ kind = NalgebraIsometry3
    /\ Applied("mul")
    /\ pose = QuarterTurnedUnit
    /\ last.self = pose
    /\ last.other = pose
    /\ last.out.translation = <<One, One, Zero>>

\* the pose as a map of points: the point turned, then shifted
ActsOn(p, x) == VAdd(QuatRotate(p.rotation, x), p.translation)

ProbePoints == {<<One, Zero, Zero>>, <<Zero, One, Zero>>, <<Zero, Zero, One>>}

\* C20: for ImplicitDualQuaternion, mul has rotation q1 * q2 and translation
\* q1 * t2 + t1, so the product maps a point as the receiver maps the image
\* under the argument; inverse has rotation q^-1 and translation q^-1 * (-t),
\* so it maps the images of the pose back.
IdqComposition ==
    /\ (kind = ImplicitDualQuaternion /\ Applied("mul")) =>
           /\ last.out.rotation = QuatMul(last.self.rotation, last.other.rotation)
           /\ last.out.translation
                  = VAdd(QuatRotate(last.self.rotation, last.other.translation),
                         last.self.translation)
           /\ \A x \in ProbePoints :
                  ActsOn(last.out, x) = ActsOn(last.self, ActsOn(last.other, x))
    /\ (kind = ImplicitDualQuaternion /\ Applied("inverse")) =>
           /\ last.out.rotation = QuatInverse(last.self.rotation)
           /\ last.out.translation
                  = QuatRotate(QuatInverse(last.self.rotation), VNeg(last.self.translation))
           /\ \A x \in ProbePoints : ActsOn(last.out, ActsOn(last.self, x)) = x

\* a product of two translated and turned ImplicitDualQuaternion poses whose
\* translation is neither factor's
IdqCompositionWitness ==
    /\ kind = ImplicitDualQuaternion
    /\ Applied("mul")
    /\ Turned(last.self)
    /\ Turned(last.other)
    /\ last.out.translation \notin {last.self.translation, last.other.translation}
    /\ last.out.rotation \notin {last.self.rotation, last.other.rotation}

\* the truncated series of pose_ln: 1 - phi^2/3 - phi^4/45 and
\* 1/3 + phi^2/45 + 2 phi^4/945
LnSeriesR(phi) ==
    Sub(Sub(One, Div(Mul(phi, phi), Rat(3, 1))),
        Div(Mul(Mul(phi, phi), Mul(phi, phi)), Rat(45, 1)))

LnSeriesD(phi) ==
    Add(Add(Rat(1, 3), Div(Mul(phi, phi), Rat(45, 1))),
        Div(Mul(Two, Mul(Mul(phi, phi), Mul(phi, phi))), Rat(945, 1)))

\* s = |(i, j, k)| and phi = atan2(s, w) of a stored rotation
LnS(r) == Norm(Imag(r))

LnPhi(r) == Atan2(Norm(Imag(r)), r.w)

LnBranchesOf(s, c, phi, mu_r) ==
    /\ mu_r = IF LtPow10(s, LnThresholdExp) THEN LnSeriesR(phi)
              ELSE Div(Mul(c, phi), s)
    /\ ln_mu_d(phi, mu_r)
           = IF LtPow10(phi, LnThresholdExp) THEN LnSeriesD(phi)
             ELSE Div(Sub(One, mu_r), Mul(phi, phi))

\* C21: in pose_ln the two coefficients choose their branch independently:
\* mu_r is the truncated series exactly when s < 1e-14 and c*phi/s otherwise,
\* mu_d is the truncated series exactly when phi < 1e-14 and
\* (1 - mu_r)/phi^2 otherwise.
LnBranchesIndependent ==
    Applied("ln") =>
        LnBranchesOf(LnS(last.self.rotation), last.self.rotation.w,
                     LnPhi(last.self.rotation),
                     ln_mu_r(LnS(last.self.rotation), last.self.rotation.w,
                             LnPhi(last.self.rotation)))

\* a logarithm where the two decisions differ: s below its threshold, phi not
LnBranchesIndependentWitness ==
    /\ Applied("ln")
    /\ LtPow10(LnS(last.self.rotation), LnThresholdExp)
    /\ ~LtPow10(LnPhi(last.self.rotation), LnThresholdExp)

\* C22: the series branches of pose_ln are small-angle branches: whenever mu_r
\* or mu_d is computed by the truncated series, the angle phi = atan2(s, w) of
\* the unit quaternion is below the small-angle threshold, also for
\* quaternions with negative w.
LnSeriesOnlyNearZero ==
    Applied("ln") =>
        ((ln_s_small(LnS(last.self.rotation)) \/ ln_phi_small(LnPhi(last.self.rotation)))
            => LtPow10(LnPhi(last.self.rotation), LnThresholdExp))

\* the truncated series of pose_exp: 1 - phi^2/6 + phi^4/120 and
\* 4/3 - 4 phi^2/15 + 8 phi^4/315
ExpSeriesR(phi) ==
    Add(Sub(One, Div(Mul(phi, phi), Rat(6, 1))),
        Div(Mul(Mul(phi, phi), Mul(phi, phi)), Rat(120, 1)))

ExpSeriesD(phi) ==
    Add(Sub(Rat(4, 3), Div(Mul(Rat(4, 1), Mul(phi, phi)), Rat(15, 1))),
        Div(Mul(Rat(8, 1), Mul(Mul(phi, phi), Mul(phi, phi))), Rat(315, 1)))

ExpBranchesOf(phi, mu_r) ==
    IF LtPow10(phi, ExpThresholdExp)
    THEN /\ mu_r = ExpSeriesR(phi)
         /\ exp_mu_d(phi, Cos(phi), mu_r) = ExpSeriesD(phi)
    ELSE /\ mu_r = Div(Sin(phi), phi)
         /\ exp_mu_d(phi, Cos(phi), mu_r)
                = Div(Sub(Two, Mul(Mul(Two, Cos(phi)), mu_r)), Mul(phi, phi))

\* the twist's first three components make the rotation
ExpReadsRotationFirst(w, phi, out) ==
    out.rotation = exp_rotation(Cos(phi), VScale(exp_mu_r(phi, Sin(phi)), w))

\* C23: in pose_exp both coefficients change branch together on phi = |w| <
\* 1e-8: both are the truncated series below it, and sin(phi)/phi and
\* (2 - 2 cos(phi) mu_r)/phi^2 otherwise; the first three components of the
\* twist are the rotation generator and the last three the translation
\* generator, which is the layout pose_ln writes.
ExpBranchesTogether ==
    /\ Applied("exp") =>
           /\ ExpBranchesOf(Norm(<<last.arg[1], last.arg[2], last.arg[3]>>),
                            exp_mu_r(Norm(<<last.arg[1], last.arg[2], last.arg[3]>>),
                                     Sin(Norm(<<last.arg[1], last.arg[2], last.arg[3]>>))))
           /\ ExpReadsRotationFirst(<<last.arg[1], last.arg[2], last.arg[3]>>,
                                    Norm(<<last.arg[1], last.arg[2], last.arg[3]>>),
                                    last.out)
           /\ SameRotation(last.out.rotation, last.self.rotation)
    /\ Applied("ln") =>
           <<last.out[1], last.out[2], last.out[3]>>
               = VScale(ln_a(LnS(last.self.rotation), LnPhi(last.self.rotation)),
                        Imag(last.self.rotation))

\* the exponential of a twist with a rotation generator that is not zero and a
\* translation generator that is not zero
ExpBranchesTogetherWitness ==
    /\ Applied("exp")
    /\ <<last.arg[1], last.arg[2], last.arg[3]>> # ZeroVec3
    /\ <<last.arg[4], last.arg[5], last.arg[6]>> # ZeroVec3
    /\ ~LtPow10(Norm(<<last.arg[1], last.arg[2], last.arg[3]>>), ExpThresholdExp)

----------------------------------------------------------------------------
(* Properties of the egui engine and the containers *)

\* a step of the named method on the id, the lock taken
Called(ops) == call'.op \in ops /\ mutex' = "free"

TopBottomPanelSet(id, open) ==
    /\ id \in DOMAIN engine'.top_bottom_panel_states
    /\ engine'.top_bottom_panel_states[id].open = open
    /\ engine'.side_panel_states = engine.side_panel_states

\* C24: open_top_bottom_panel(id) leaves the top/bottom panel of id open and
\* close_top_bottom_panel(id) leaves it closed, the state created when it is
\* absent, and neither changes the state of any side panel.
TopBottomPanelCalls ==
    [][Called({"open_top_bottom_panel", "close_top_bottom_panel"})
          => TopBottomPanelSet(call'.id, call'.op = "open_top_bottom_panel")]_vars

\* the end of a window's show in a frame in which the user did not close it
WindowShownOn == call'.op = "end_window" /\ ~call'.closed /\ mutex' = "free"

\* C26: a close_window or open_window issued for a window while its show runs
\* add_contents is not lost: unless the user closed the window in that frame,
\* the open flag the contents left is the one the window has after show.
ContentsCallsKept ==
    [][WindowShownOn
          => engine'.window_states[call'.id].open = engine.window_states[call'.id].open]_vars

\* C27: the engine's mutex is never acquired while it is held: a container's
\* show has released its guard before add_contents runs and before every later
\* lock, and so has the joint sliders' action when it locks again.
MutexNeverRelocked == mutex # "deadlock" /\ (frames # <<>> => mutex = "free")

\* the sliders ran inside the side panel's contents and the show went on to end
MutexNeverRelockedWitness ==
    /\ call.op = "end_side_panel"
    /\ robot_state_update_requests # <<>>
    /\ engine.ui_contains_pointer
    /\ mutex = "free"

DuplicateFree(list) == \A m, n \in DOMAIN list : list[m] = list[n] => m = n

SelectionsOf(id) == engine.selector_responses[id].current_selections_as_ron_strings

SelectionsWellFormed(id, selector) ==
    /\ DuplicateFree(SelectionsOf(id))
    /\ \A n \in DOMAIN SelectionsOf(id) :
          Contains(selector.selection_choices_as_ron_strings, SelectionsOf(id)[n])
    /\ ~selector.allow_multiple_selections => Len(SelectionsOf(id)) <= 1

\* C28: the selection list stored for a selector has no duplicates, holds only
\* choices of that selector, and holds at most one of them when the selector
\* does not allow multiple selections.
SelectionsAreChoices ==
    \A id \in DOMAIN engine.selector_responses : SelectionsWellFormed(id, Selectors[id])

\* two choices selected with shift in one selector, one selected in another
\* after a click on a second choice, the combo box with its second choice
SelectionsAreChoicesWitness ==
    /\ DOMAIN engine.selector_responses = DOMAIN Selectors
    /\ SelectionsOf("check") = <<"z", "x">>
    /\ SelectionsOf("radio") = <<"y">>
    /\ SelectionsOf("text") = <<"y", "x">>
    /\ SelectionsOf("combo") = <<"y">>

\* a show for an id that has no state of the container's kind
FirstShow(op, states) == call'.op = op /\ call'.id \notin DOMAIN states /\ mutex' = "free"

\* the show returned without running add_contents
OnlyRegistered == ~call'.ran /\ frames' = frames

\* C29: the first show of a container for an id that has no stored state only
\* registers the state, a window's with open = start_open and a panel's with
\* open = true, and returns without running add_contents.
FirstShowRegisters ==
    [][/\ FirstShow("show_window", engine.window_states)
            => /\ OnlyRegistered
               /\ engine' = [engine EXCEPT !.window_states =
                      Insert(@, call'.id,
                          OEguiWindowState(OEguiWindow[call'.id].start_open, DefaultPos, FALSE))]
       /\ FirstShow("show_side_panel", engine.side_panel_states)
            => /\ OnlyRegistered
               /\ engine' = [engine EXCEPT !.side_panel_states =
                      Insert(@, call'.id, OEguiSidePanelState(TRUE))]
       /\ FirstShow("show_top_bottom_panel", engine.top_bottom_panel_states)
            => /\ OnlyRegistered
               /\ engine' = [engine EXCEPT !.top_bottom_panel_states =
                      Insert(@, call'.id, OEguiTopBottomPanelState(TRUE))]]_vars

\* both panels registered by their first show, then the window that starts
\* open registered by its own, its contents not run
FirstShowRegistersWitness ==
    /\ call = Call("show_window", "a", FALSE, NoPos, FALSE)
    /\ engine.window_states = Insert(EmptyMap, "a", OEguiWindowState(TRUE, DefaultPos, FALSE))
    /\ engine.side_panel_states = Insert(EmptyMap, "a", OEguiSidePanelState(TRUE))
    /\ engine.top_bottom_panel_states = Insert(EmptyMap, "a", OEguiTopBottomPanelState(TRUE))

\* only the pointer flag and the windows' change_position flags differ, and
\* those are false
OnlyFlagsReset ==
    /\ ~engine'.ui_contains_pointer
    /\ DOMAIN engine'.window_states = DOMAIN engine.window_states
    /\ \A id \in DOMAIN engine.window_states :
          engine'.window_states[id] =
              OEguiWindowState(engine.window_states[id].open,
                               engine.window_states[id].position, FALSE)
    /\ engine'.side_panel_states = engine.side_panel_states
    /\ engine'.top_bottom_panel_states = engine.top_bottom_panel_states
    /\ engine'.selector_responses = engine.selector_responses
    /\ UNCHANGED <<frames, poses, robots>>

PositionPending(e, id) == id \in DOMAIN e.window_states /\ e.window_states[id].change_position

\* show hands a window the stored position exactly when one is pending
AppliedWhilePending ==
    call'.pos = IF PositionPending(engine, call'.id)
                THEN engine.window_states[call'.id].position ELSE NoPos

\* a position becomes pending only by set_position_of_window asking for it
PendingAsRequested(id) ==
    /\ call'.op = "set_position_of_window"
    /\ call'.id = id
    /\ call'.pos = engine'.window_states[id].position

\* C30: reset_on_frame sets ui_contains_pointer to false and every window's
\* change_position to false and changes nothing else; a position requested by
\* set_position_of_window is pending from the request to the next
\* reset_on_frame, and a window's show applies it only while it is pending.
PositionAppliedUntilReset ==
    [][/\ Called({"reset_on_frame"}) => OnlyFlagsReset
       /\ Called({"show_window"}) => AppliedWhilePending
       /\ \A id \in WindowIds :
             PositionPending(engine', id) /\ ~PositionPending(engine, id)
                 => PendingAsRequested(id)]_vars

\* a frame was reset after a window was moved and the pointer was over a
\* container, another window's state and a panel's being there to be kept
PositionAppliedUntilResetWitness ==
    /\ call.op = "reset_on_frame"
    /\ DOMAIN engine.window_states = WindowIds
    /\ engine.window_states["a"] = OEguiWindowState(TRUE, "corner", FALSE)
    /\ engine.window_states["b"] = OEguiWindowState(FALSE, DefaultPos, FALSE)
    /\ engine.side_panel_states = Insert(EmptyMap, "a", OEguiSidePanelState(FALSE))

----------------------------------------------------------------------------
(* Properties of the robot state engine *)

\* the requests for the instance, oldest first
RECURSIVE RequestsFor(_, _)
RequestsFor(requests, idx) ==
    IF requests = <<>> THEN <<>>
    ELSE IF requests[1][1] = idx
         THEN <<requests[1][2]>> \o RequestsFor(Tail(requests), idx)
         ELSE RequestsFor(Tail(requests), idx)

MostRecent(requests, idx) == RequestsFor(requests, idx)[Len(RequestsFor(requests, idx))]

\* an instance without a request keeps what it had; one with requests is left
\* at the state of the request added last
LeftAtMostRecent(idx) ==
    IF RequestsFor(robot_state_update_requests, idx) = <<>>
    THEN /\ (idx \in DOMAIN robot_states') = (idx \in DOMAIN robot_states)
         /\ idx \in DOMAIN robot_states => robot_states'[idx] = robot_states[idx]
    ELSE /\ idx \in DOMAIN robot_states'
         /\ robot_states'[idx] = MostRecent(robot_state_update_requests, idx)
         /\ to_constant_vec(transforms'[idx]) = MostRecent(robot_state_update_requests, idx)

\* C25: system_robot_state_updater applies every pending request and leaves the
\* queue empty, and when several requests name one robot instance the state
\* stored for it afterwards is that of the request added most recently.
UpdaterAppliesInOrder ==
    [][call'.op = "system_robot_state_updater"
          => /\ robot_state_update_requests' = <<>>
             /\ \A idx \in RobotInstances : LeftAtMostRecent(idx)]_vars

====
